---- MODULE Spec2Model ----
(***************************************************************************)
(* A model of the Tree / Node classes of python-tree (src/tree.py,         *)
(* src/node.py).                                                           *)
(*                                                                         *)
(* Objects live in a heap: heap[i] is the i-th object constructed.  A      *)
(* Python string is a sequence of one-character strings, so that len(),    *)
(* slicing and concatenation are Len, SubSeq and \o.  The box-drawing      *)
(* characters of the fancy palette are written by code point ("U+2502").   *)
(* A Python value held in a field or passed as an argument is a tagged     *)
(* record: None, Str(s), PyInt(n), PyBool(b), Ref(i) (a Tree object), or       *)
(* Fn(result, raises) (a callable given as print_function).                *)
(*                                                                         *)
(* The attributes dirty, list and string of a Tree are written by the code *)
(* but never read by it; they are left out of the object record.  The      *)
(* list and the string that print() builds are kept in ret.                *)
(***************************************************************************)
EXTENDS Integers, Sequences, FiniteSets

VARIABLES heap, ret

vars == <<heap, ret>>

----------------------------------------------------------------------------
(* Bounds of the model *)

MaxObj == 2
MaxKids == 2

----------------------------------------------------------------------------
(* Python values *)

None == [t |-> "none", s |-> <<>>, n |-> 0]
Str(s) == [t |-> "str", s |-> s, n |-> 0]
PyInt(i) == [t |-> "int", s |-> <<>>, n |-> i]
PyBool(b) == [t |-> "bool", s |-> <<>>, n |-> IF b THEN 1 ELSE 0]
Ref(i) == [t |-> "tree", s |-> <<>>, n |-> i]
Fn(result, raises) == [t |-> "fn", s |-> result, n |-> IF raises THEN 1 ELSE 0]

IsNone(v) == v.t = "none"
IsTree(v) == v.t = "tree"

Min(a, b) == IF a < b THEN a ELSE b

\* s[a:b] of Python, a and b counted from 0 and cut to the length of s
Slice(s, a, b) ==
  LET hi == Min(b, Len(s))
  IN  IF a >= hi THEN <<>> ELSE [i \in 1..(hi - a) |-> s[a + i]]

\* str(v) for the values the model holds
PyStr(v) ==
  CASE v.t = "str" -> v.s
    [] v.t = "none" -> <<"N", "o", "n", "e">>
    [] v.t = "int" -> <<CASE v.n = 0 -> "0" [] v.n = 1 -> "1" [] v.n = 2 -> "2" [] OTHER -> "9">>
    [] v.t = "bool" -> IF v.n = 1 THEN <<"T", "r", "u", "e">> ELSE <<"F", "a", "l", "s", "e">>
    [] OTHER -> <<"?">>

\* bool(v): the truth value Python gives v in a condition
Truthy(v) ==
  CASE v.t = "none" -> FALSE
    [] v.t = "str" -> v.s # <<>>
    [] v.t = "int" -> v.n # 0
    [] v.t = "bool" -> v.n = 1
    [] OTHER -> TRUE

LowerChar(c) ==
  CASE c = "R" -> "r" [] c = "N" -> "n" [] c = "C" -> "c" [] c = "T" -> "t" [] c = "F" -> "f"
    [] OTHER -> c

\* s.lower()
Lower(s) == [i \in 1..Len(s) |-> LowerChar(s[i])]

----------------------------------------------------------------------------
(* Child collections: self.nodes is None, a list or a dict.  A dict keeps  *)
(* its keys in insertion order: keys[k] maps to items[k].                  *)

NodesNone == [shape |-> "none", keys |-> <<>>, items |-> <<>>]
NodesList(items) == [shape |-> "list", keys |-> <<>>, items |-> items]
NodesDict(keys, items) == [shape |-> "dict", keys |-> keys, items |-> items]
\* a constructor argument that is neither None, a list nor a dict
NodesPlain(v) == [shape |-> "plain", keys |-> <<>>, items |-> <<v>>]

\* len(self.nodes)
NodesLen(nd) == Len(nd.items)

\* position of key in a dict's keys, 0 when absent
RECURSIVE KeyPosFrom(_, _, _)
KeyPosFrom(keys, key, k) ==
  IF k > Len(keys) THEN 0
  ELSE IF keys[k] = key THEN k
  ELSE KeyPosFrom(keys, key, k + 1)

KeyPos(keys, key) == KeyPosFrom(keys, key, 1)

----------------------------------------------------------------------------
(* Tree.__set_characters *)

SetCharacters(o) ==
  IF o.fancy
  THEN [o EXCEPT !.pipe = <<"U+2502">>,
                 !.branch = <<"U+251C", "U+2500">>,
                 !.end = <<"U+2514", "U+2500">>,
                 !.space = <<" ">>,
                 !.nameless = <<"U+2510">>,
                 !.split_line = <<"~">>]
  ELSE [o EXCEPT !.pipe = <<"|">>,
                 !.branch = <<"|", "-", ">">>,
                 !.end = <<"|", "-", ">">>,
                 !.space = <<" ", " ">>,
                 !.nameless = <<"\\">>,
                 !.split_line = <<"~">>]

\* Tree.set_name
SetName(o, name) == [o EXCEPT !.name = name]

\* Tree.set_nodes: anything that is not a list or a dict, None included, becomes a
\* one-element list
SetNodes(o, nodes) ==
  IF nodes.shape # "list" /\ nodes.shape # "dict"
  THEN [o EXCEPT !.nodes = NodesList(<<IF nodes.shape = "none" THEN None ELSE nodes.items[1]>>)]
  ELSE [o EXCEPT !.nodes = nodes]

\* an object before __init__ has set anything
Blank ==
  [cls |-> "Tree", name |-> None, nodes |-> NodesNone, fancy |-> FALSE,
   pipe |-> <<>>, branch |-> <<>>, end |-> <<>>, space |-> <<>>, nameless |-> <<>>,
   split_line |-> <<>>, line_wrap |-> 0, width |-> 0,
   data |-> None, print_function |-> None, print_args |-> None]

----------------------------------------------------------------------------
(* The setters, and the cascade that calls them by name on the children    *)

RECURSIVE CallMethod(_, _, _, _)
RECURSIVE CascadeFuns(_, _, _, _, _)
RECURSIVE CascadeItems(_, _, _, _, _)

\* the guard of the loop over the children in Tree.__cascade: a dict's values() is
\* a view, not a list, so only a list of children is walked
CascadeWalks(nd) == nd.shape = "list"

\* Tree.__cascade; functions and args are the lists the code normalises them to
Cascade(h, self, functions, args) ==
  IF Len(functions) # Len(args) THEN h
  ELSE IF h[self].nodes.shape = "none" THEN h
  ELSE IF CascadeWalks(h[self].nodes) THEN CascadeItems(h, h[self].nodes.items, 1, functions, args)
  ELSE h

\* for item in items: if isinstance(item, Tree): ...
CascadeItems(h, items, k, functions, args) ==
  IF k > Len(items) THEN h
  ELSE IF IsTree(items[k])
       THEN CascadeItems(CascadeFuns(h, items[k].n, functions, args, 1), items, k + 1,
                         functions, args)
       ELSE CascadeItems(h, items, k + 1, functions, args)

\* for i in range(len(functions)): getattr(item, functions[i])(*args[i])
CascadeFuns(h, item, functions, args, i) ==
  IF i > Len(functions) THEN h
  ELSE CascadeFuns(CallMethod(h, item, functions[i], args[i]), item, functions, args, i + 1)

\* the guard, were the flag not looked at
CascadeGuardAlways(cascade) == TRUE

\* whether a setter goes on to its children
CascadeGuard(cascade) == cascade

\* Tree.set_fancy
SetFancy(h, self, set_fancy, cascade) ==
  LET h1 == [h EXCEPT ![self] = SetCharacters([h[self] EXCEPT !.fancy = Truthy(set_fancy)])]
  IN  IF CascadeGuard(cascade)
      THEN Cascade(h1, self, <<"set_fancy">>, << <<set_fancy, cascade>> >>)
      ELSE h1

\* Tree.set_term_size
SetTermSize(h, self, width, cascade) ==
  LET h1 == IF ~IsNone(width) THEN [h EXCEPT ![self].width = width.n] ELSE h
  IN  IF CascadeGuard(cascade)
      THEN Cascade(h1, self, <<"set_term_size">>, << <<width, cascade>> >>)
      ELSE h1

\* Tree.set_line_wrap
SetLineWrap(h, self, line_width, cascade) ==
  LET h1 == IF ~IsNone(line_width) THEN [h EXCEPT ![self].line_wrap = line_width.n] ELSE h
  IN  IF CascadeGuard(cascade)
      THEN Cascade(h1, self, <<"set_line_wrap">>, << <<line_width, cascade>> >>)
      ELSE h1

\* getattr(item, name)(*args)
CallMethod(h, item, name, args) ==
  CASE name = "set_fancy" -> SetFancy(h, item, args[1], args[2])
    [] name = "set_line_wrap" -> SetLineWrap(h, item, args[1], args[2])
    [] name = "set_term_size" -> SetTermSize(h, item, args[1], args[2])
    [] OTHER -> h

\* Tree.update
Update(h, self, set_fancy, line_width, term_width, cascade) ==
  LET h1 == IF ~IsNone(set_fancy) THEN SetFancy(h, self, set_fancy, FALSE) ELSE h
      f1 == IF ~IsNone(set_fancy) THEN <<"set_fancy">> ELSE <<>>
      a1 == IF ~IsNone(set_fancy) THEN << <<set_fancy, cascade>> >> ELSE <<>>
      h2 == IF ~IsNone(line_width) THEN SetLineWrap(h1, self, line_width, FALSE) ELSE h1
      f2 == IF ~IsNone(line_width) THEN Append(f1, "set_line_wrap") ELSE f1
      a2 == IF ~IsNone(line_width) THEN Append(a1, <<line_width, cascade>>) ELSE a1
      h3 == IF ~IsNone(term_width) THEN SetTermSize(h2, self, term_width, FALSE) ELSE h2
      f3 == IF ~IsNone(term_width) THEN Append(f2, "set_term_size") ELSE f2
      a3 == IF ~IsNone(term_width) THEN Append(a2, <<term_width, cascade>>) ELSE a2
  IN  IF CascadeGuard(cascade) THEN Cascade(h3, self, f3, a3) ELSE h3

----------------------------------------------------------------------------
(* Construction.  The object being constructed is appended to the heap     *)
(* first, so that the setters __init__ calls act on it in place.           *)

\* Tree.__init__
TreeInit(h, name, nodes, fancy, wrap, width) ==
  LET self == Len(h) + 1
      h0 == Append(h, SetNodes(SetName(Blank, name), nodes))
      h1 == SetFancy(h0, self, fancy, FALSE)
      width1 == IF IsNone(width) THEN PyInt(0 - 1) ELSE width
      wrap1 == IF IsNone(wrap) THEN PyInt(0 - 1) ELSE wrap
      h2 == SetTermSize(h1, self, width1, FALSE)
  IN  SetLineWrap(h2, self, wrap1, FALSE)

\* Node.__init__
NodeInit(h, data, name, print_function, print_args, nodes) ==
  LET self == Len(h) + 1
      h1 == TreeInit(h, name, nodes, PyBool(FALSE), None, None)
  IN  [h1 EXCEPT ![self] = [@ EXCEPT !.cls = "Node", !.name = name, !.data = data,
                                     !.print_function = print_function,
                                     !.print_args = print_args]]

----------------------------------------------------------------------------
(* Stringification *)

\* Tree.__str__
TreeStr(o) == IF Truthy(o.name) THEN PyStr(o.name) ELSE <<>>

\* Node.__str__; exc: the print_function raised
NodeStr(o) ==
  IF Truthy(o.print_function)
  THEN IF Truthy(o.print_args)
       THEN [exc |-> o.print_function.n = 1, s |-> o.print_function.s]
       ELSE [exc |-> o.print_function.n = 1, s |-> o.print_function.s]
  ELSE IF ~IsNone(o.data) THEN [exc |-> FALSE, s |-> PyStr(o.data)]
  ELSE IF ~IsNone(o.name) THEN [exc |-> FALSE, s |-> PyStr(o.name)]
  ELSE [exc |-> FALSE, s |-> <<>>]

\* str(self): dispatch on the class of the object
ObjStr(o) == IF o.cls = "Node" THEN NodeStr(o) ELSE [exc |-> FALSE, s |-> TreeStr(o)]

----------------------------------------------------------------------------
(* The wrap helper formatString.tabulate(text, width, 0), followed by the  *)
(* split("\n") every caller applies to its result: the lines of text, each *)
(* of at most width characters.                                            *)

Tabulate(text, width) ==
  IF Len(text) = 0 THEN << <<>> >>
  ELSE [k \in 1..((Len(text) + width - 1) \div width) |->
          Slice(text, (k - 1) * width, k * width)]

\* What the helper does with a width that is not positive is not specified: it
\* either raises (nonpos = "raise") or returns the text unwrapped ("whole").
NonPosOutcomes == {"raise", "whole"}

TabulateCall(text, width, nonpos) ==
  IF width > 0 THEN [exc |-> FALSE, lines |-> Tabulate(text, width)]
  ELSE IF nonpos = "raise" THEN [exc |-> TRUE, lines |-> <<>>]
  ELSE [exc |-> FALSE, lines |-> <<text>>]

\* s.strip() == ""
IsBlank(s) == \A i \in 1..Len(s) : s[i] = " "

\* the loop over temp: blank lines are dropped, line 0 gets first, the others cont
WrapLines(temp, first, cont) ==
  LET idx == SelectSeq([j \in 1..Len(temp) |-> j], LAMBDA j : ~IsBlank(temp[j]))
  IN  [k \in 1..Len(idx) |-> (IF idx[k] = 1 THEN first ELSE cont) \o temp[idx[k]]]

----------------------------------------------------------------------------
(* Tree.__recursive_generation *)

\* the keys, were a list walked from its end
KeysOfReversed(nd) ==
  IF nd.shape = "list" THEN [k \in 1..Len(nd.items) |-> PyInt(Len(nd.items) - k)]
  ELSE IF nd.shape = "dict" THEN nd.keys
  ELSE <<>>

\* the keys the loop over the children walks: the indices of a list from 0, the
\* keys of a dict in insertion order
KeysOf(nd) ==
  IF nd.shape = "list" THEN [k \in 1..Len(nd.items) |-> PyInt(k - 1)]
  ELSE IF nd.shape = "dict" THEN nd.keys
  ELSE <<>>

\* self.nodes[i]
ItemAt(nd, i) ==
  IF nd.shape = "list" THEN nd.items[i.n + 1] ELSE nd.items[KeyPos(nd.keys, i)]

\* i == len(self.nodes) - 1, i being the key of the child
ChildLast(nd, i) == i.t = "int" /\ i.n = NodesLen(nd) - 1

\* the connector of this node's own line, and the prefix whose length is handed
\* down to a child Tree
OwnPrefix(o, last) == IF last THEN o.end ELSE o.branch

\* the connector of a plain-value child
ValuePrefix(o, nd, i) == IF ChildLast(nd, i) THEN o.end ELSE o.branch

\* the lines of the node's own name
OwnLines(o, name, prefix) ==
  IF o.line_wrap > 0
  THEN WrapLines(Tabulate(name, o.line_wrap), prefix, o.split_line)
  ELSE <<prefix \o name>>

\* the width the text of a plain-value child is wrapped at, None for no wrapping
EffectiveWrap(o, prefix, prior_prefix) ==
  LET wrap1 == IF o.line_wrap > 0 THEN PyInt(o.line_wrap) ELSE None
  IN  IF o.width > 0 THEN PyInt(o.width - Len(prefix) - prior_prefix) ELSE wrap1

\* the lines of a plain-value child; exc: the wrap helper raised
ValueLines(o, nd, i, item, prior_prefix, nonpos) ==
  LET prefix == ValuePrefix(o, nd, i)
      wrap == EffectiveWrap(o, prefix, prior_prefix)
      wrap_prefix == IF ChildLast(nd, i) THEN o.space ELSE o.pipe
      temp == TabulateCall(item, wrap.n, nonpos)
  IN  IF IsNone(wrap) THEN [exc |-> FALSE, lines |-> <<prefix \o item>>]
      ELSE IF temp.exc THEN [exc |-> TRUE, lines |-> <<>>]
      ELSE [exc |-> FALSE, lines |-> WrapLines(temp.lines, prefix, wrap_prefix \o o.split_line)]

\* the lines of a child Tree, were the space after the pipe left out
ChildLinesNoSpace(o, nd, i, child) ==
  [j \in 1..Len(child) |->
     IF j = 1 THEN child[j]
     ELSE (IF ~ChildLast(nd, i) THEN o.pipe ELSE o.space) \o child[j]]

\* the lines a child Tree returned, the first as it is and the others behind this
\* node's pipe or space
ChildLines(o, nd, i, child) ==
  [j \in 1..Len(child) |->
     IF j = 1 THEN child[j]
     ELSE (IF ~ChildLast(nd, i) THEN o.pipe ELSE o.space)
          \o (IF Len(child[j]) > 0 /\ <<child[j][1]>> # o.split_line THEN o.space ELSE <<>>)
          \o child[j]]

Raised == [exc |-> TRUE, lines |-> <<>>, tabs |-> {}]

\* one call of tabulate: by which node, for its name or for a plain-value child,
\* with which width
TabCall(kind, self, width, plen, prior_prefix, line_wrap, budget) ==
  [kind |-> kind, self |-> self, width |-> width, plen |-> plen, prior |-> prior_prefix,
   line_wrap |-> line_wrap, budget |-> budget]

RECURSIVE Gen(_, _, _, _, _, _)
RECURSIVE GenKids(_, _, _, _, _, _, _)

\* the loop over the children, from the k-th on; acc: the lines so far
GenKids(h, self, last, prior_prefix, nonpos, k, acc) ==
  LET o == h[self]
      nd == o.nodes
  IN  IF k > Len(KeysOf(nd)) THEN acc
      ELSE
        LET i == KeysOf(nd)[k]
            item == ItemAt(nd, i)
        IN  IF IsTree(item)
            THEN LET child == Gen(h, item.n, ChildLast(nd, i),
                                  Len(OwnPrefix(o, last)) + prior_prefix, FALSE, nonpos)
                 IN  IF child.exc THEN Raised
                     ELSE GenKids(h, self, last, prior_prefix, nonpos, k + 1,
                                  [acc EXCEPT !.lines = @ \o ChildLines(o, nd, i, child.lines),
                                              !.tabs = @ \cup child.tabs])
            ELSE IF IsNone(item)
            THEN GenKids(h, self, last, prior_prefix, nonpos, k + 1, acc)
            ELSE LET v == ValueLines(o, nd, i, PyStr(item), prior_prefix, nonpos)
                     prefix == ValuePrefix(o, nd, i)
                     wrap == EffectiveWrap(o, prefix, prior_prefix)
                     calls == IF IsNone(wrap) THEN {}
                              ELSE {TabCall("value", self, wrap.n, Len(prefix), prior_prefix,
                                            o.line_wrap, o.width)}
                 IN  IF v.exc THEN Raised
                     ELSE GenKids(h, self, last, prior_prefix, nonpos, k + 1,
                                  [acc EXCEPT !.lines = @ \o v.lines, !.tabs = @ \cup calls])

Gen(h, self, last, prior_prefix, root, nonpos) ==
  LET o == h[self]
      st == ObjStr(o)
      shows == st.s # <<>> \/ ~root
      name == IF st.s = <<>> THEN o.nameless ELSE st.s
      prefix == OwnPrefix(o, last)
      own == IF shows THEN OwnLines(o, name, prefix) ELSE <<>>
      calls == IF shows /\ o.line_wrap > 0
               THEN {TabCall("name", self, o.line_wrap, Len(prefix), prior_prefix,
                             o.line_wrap, o.width)}
               ELSE {}
  IN  IF st.exc THEN Raised
      ELSE IF o.nodes.shape = "none" THEN [exc |-> FALSE, lines |-> own, tabs |-> calls]
      ELSE GenKids(h, self, last, prior_prefix, nonpos, 1,
                   [exc |-> FALSE, lines |-> own, tabs |-> calls])

----------------------------------------------------------------------------
(* Tree.print *)

\* the slice, were the length of the ASCII connector written into it
StripRootFixed(o, line) == Slice(line, 3, Len(line))

\* self.list[i][len(self.end):]
StripRoot(o, line) == Slice(line, Len(o.end), Len(line))

\* the lines print() returns, from the lines of the layout
PrintLines(o, lines, remove_root_branch) ==
  [i \in 1..Len(lines) |-> IF remove_root_branch THEN StripRoot(o, lines[i]) ELSE lines[i]]

\* self.string: every line followed by a newline
RECURSIVE JoinLines(_)
JoinLines(lines) ==
  IF lines = <<>> THEN <<>> ELSE lines[1] \o <<"\n">> \o JoinLines(Tail(lines))

\* the heap while the layout runs: the tree is the single child of self
PrintWrapped(h, self) ==
  LET o == h[self]
      child == Len(h) + 1
      h1 == TreeInit(h, o.name, o.nodes, PyBool(o.fancy), PyInt(o.line_wrap), PyInt(o.width))
  IN  [h1 EXCEPT ![self] = [@ EXCEPT !.name = None, !.nodes = NodesList(<<Ref(child)>>)]]

\* the heap print() leaves when the layout raised: nothing restores name and nodes
PrintRaised(h, self) == PrintWrapped(h, self)

\* the heap print() leaves when it returns: name and nodes are put back, and the
\* child is garbage
PrintReturned(h, self) == h

TreePrint(h, self, remove_root_branch, nonpos) ==
  LET g == Gen(PrintWrapped(h, self), self, TRUE, 0, TRUE, nonpos)
      list == PrintLines(h[self], g.lines, remove_root_branch)
  IN  IF g.exc
      THEN [exc |-> TRUE, heap |-> PrintRaised(h, self), list |-> <<>>, string |-> <<>>,
            tabs |-> {}]
      ELSE [exc |-> FALSE, heap |-> PrintReturned(h, self), list |-> list,
            string |-> JoinLines(list), tabs |-> g.tabs]

----------------------------------------------------------------------------
(* Tree.search and Tree.add_node *)

\* the loop of search over a list; reading item.name of an entry that is no Tree
\* raises AttributeError
RECURSIVE SearchList(_, _, _, _)
SearchList(h, items, k, key) ==
  IF k > Len(items) THEN [exc |-> FALSE, val |-> None]
  ELSE IF ~IsTree(items[k]) THEN [exc |-> TRUE, val |-> None]
  ELSE IF Lower(PyStr(h[items[k].n].name)) = Lower(PyStr(key))
       THEN [exc |-> FALSE, val |-> items[k]]
  ELSE SearchList(h, items, k + 1, key)

Search(h, self, key) ==
  LET nd == h[self].nodes
  IN  IF nd.shape = "dict"
      THEN IF KeyPos(nd.keys, key) # 0
           THEN [exc |-> FALSE, val |-> nd.items[KeyPos(nd.keys, key)]]
           ELSE [exc |-> FALSE, val |-> None]
      ELSE IF nd.shape = "list" THEN SearchList(h, nd.items, 1, key)
      ELSE [exc |-> FALSE, val |-> None]

\* self.nodes |= {key: node}
DictMerge(nd, key, node) ==
  IF KeyPos(nd.keys, key) # 0
  THEN [nd EXCEPT !.items[KeyPos(nd.keys, key)] = node]
  ELSE [nd EXCEPT !.keys = Append(@, key), !.items = Append(@, node)]

AddNode(h, self, node, key) ==
  LET nd == h[self].nodes
  IN  IF nd.shape = "none"
      THEN IF IsNone(key)
           THEN [heap |-> [h EXCEPT ![self].nodes = NodesList(<<node>>)], val |-> node]
           ELSE [heap |-> [h EXCEPT ![self].nodes = NodesDict(<<key>>, <<node>>)], val |-> node]
      ELSE IF nd.shape = "dict"
      THEN IF ~IsNone(key)
           THEN [heap |-> [h EXCEPT ![self].nodes = DictMerge(nd, key, node)], val |-> node]
           ELSE [heap |-> h, val |-> None]
      ELSE IF nd.shape = "list"
      THEN [heap |-> [h EXCEPT ![self].nodes = NodesList(Append(nd.items, node))], val |-> node]
      ELSE [heap |-> h, val |-> None]

----------------------------------------------------------------------------
(* The state machine.  heap: the objects constructed so far.  ret: the     *)
(* last call: its arguments, self.name and self.nodes as the call found    *)
(* them (the locals name and nodes of print), and what it returned or that *)
(* it raised.                                                              *)

NoRet ==
  [op |-> "none", self |-> 0, cascade |-> FALSE, exc |-> FALSE, val |-> None,
   node |-> None, key |-> None, set_fancy |-> None, line_width |-> None,
   term_width |-> None, name |-> None, nodes |-> NodesNone, list |-> <<>>,
   string |-> <<>>, remove_root_branch |-> FALSE, tabs |-> {}]

Init ==
  /\ heap = <<>>
  /\ ret = NoRet

Ids(h) == 1..Len(h)

\* the Tree objects among the entries of a child collection
Kids(nd) == {nd.items[k].n : k \in {j \in 1..Len(nd.items) : IsTree(nd.items[j])}}

\* the objects no child collection holds
Parentless(h) == {i \in Ids(h) : \A j \in Ids(h) : i \notin Kids(h[j].nodes)}

\* an object and everything below it
RECURSIVE SubtreeIds(_, _)
SubtreeIds(h, i) == {i} \cup UNION {SubtreeIds(h, j) : j \in Kids(h[i].nodes)}

\* the objects below i
Descendants(h, i) == SubtreeIds(h, i) \ {i}

InsertAt(s, k, x) == Slice(s, 0, k) \o <<x>> \o Slice(s, k, Len(s))

\* the sequences of S with one more Tree of refs at any place, and those of S
WithRef(S, refs) ==
  S \cup {InsertAt(s, k, r) : s \in {q \in S : Len(q) < MaxKids}, k \in 0..(MaxKids - 1), r \in refs}

\* The child entries given to a constructor: the first plain values of vals, in
\* that order, with up to two Trees among them.  A Tree given as a child is one
\* that has no parent, and is given once: the structure stays a tree, as the
\* callers of the library are required to keep it.
EntrySeqs(h, vals) ==
  LET plain == {Slice(vals, 0, k) : k \in 0..Min(MaxKids, Len(vals))}
      refs == {Ref(i) : i \in Parentless(h)}
  IN  {s \in WithRef(WithRef(plain, refs), refs) :
         \A a, b \in 1..Len(s) : (a # b /\ IsTree(s[a])) => s[a] # s[b]}

\* the values given as the nodes argument of a constructor
NodesArgs(h, vals, keys) ==
  {NodesNone, NodesPlain(vals[1])}
    \cup {NodesList(s) : s \in EntrySeqs(h, vals)}
    \cup {NodesDict(Slice(keys, 0, Len(s)), s) : s \in EntrySeqs(h, vals)}

\* the nodes arguments that take every Tree without a parent as a child: with
\* these the heap is one tree in the making, never a forest
Adopting(h, args) == {nd \in args : \A i \in Parentless(h) : i \in Kids(nd)}

\* Tree(name, nodes, fancy, wrap, width)
NewTreeOver(names, nodeses, fancies, wraps, widths) ==
  /\ Len(heap) < MaxObj
  /\ \E name \in names, nodes \in nodeses, fancy \in fancies, wrap \in wraps,
        width \in widths :
       /\ heap' = TreeInit(heap, name, nodes, fancy, wrap, width)
       /\ ret' = [NoRet EXCEPT !.op = "Tree", !.self = Len(heap) + 1]

\* Node(data, name, print_function, print_args, nodes)
NewNodeOver(datas, names, functions, nodeses) ==
  /\ Len(heap) < MaxObj
  /\ \E data \in datas, name \in names, print_function \in functions, nodes \in nodeses :
       /\ heap' = NodeInit(heap, data, name, print_function, None, nodes)
       /\ ret' = [NoRet EXCEPT !.op = "Node", !.self = Len(heap) + 1]

\* self.add_node(node, key); a Tree given as node is one that has no parent and is
\* not the root of the tree self is in
AddNodeOver(values, keys) ==
  \E self \in Ids(heap), key \in keys :
  \E node \in values \cup {Ref(i) : i \in {j \in Parentless(heap) : self \notin SubtreeIds(heap, j)}} :
    /\ NodesLen(heap[self].nodes) < MaxKids
    /\ heap' = AddNode(heap, self, node, key).heap
    /\ ret' = [NoRet EXCEPT !.op = "add_node", !.self = self, !.node = node, !.key = key,
                            !.nodes = heap[self].nodes,
                            !.val = AddNode(heap, self, node, key).val]

\* self.search(key)
SearchOver(keys) ==
  \E self \in Ids(heap), key \in keys :
    /\ heap' = heap
    /\ ret' = [NoRet EXCEPT !.op = "search", !.self = self, !.key = key,
                            !.exc = Search(heap, self, key).exc,
                            !.val = Search(heap, self, key).val]

\* self.print(as_a_string, remove_root_branch): ret holds self.list and
\* self.string, of which as_a_string returns the one or the other.  The child made
\* for the layout takes the next place of the heap; it stays there when print
\* raises.
PrintOver(selves) ==
  \E self \in selves, remove_root_branch \in BOOLEAN, nonpos \in NonPosOutcomes :
    /\ Len(heap) <= MaxObj
    /\ \E r \in {TreePrint(heap, self, remove_root_branch, nonpos)} :
         /\ heap' = r.heap
         /\ ret' = [NoRet EXCEPT !.op = "print", !.self = self, !.exc = r.exc,
                                 !.name = heap[self].name, !.nodes = heap[self].nodes,
                                 !.list = r.list, !.string = r.string,
                                 !.remove_root_branch = remove_root_branch,
                                 !.tabs = r.tabs]

\* self.set_fancy(set_fancy, cascade)
SetFancyOver(fancies) ==
  \E self \in Ids(heap), set_fancy \in fancies, cascade \in BOOLEAN :
    /\ heap' = SetFancy(heap, self, set_fancy, cascade)
    /\ ret' = [NoRet EXCEPT !.op = "set_fancy", !.self = self, !.cascade = cascade,
                            !.set_fancy = set_fancy]

\* self.set_line_wrap(line_width, cascade)
SetLineWrapOver(wraps) ==
  \E self \in Ids(heap), line_width \in wraps, cascade \in BOOLEAN :
    /\ heap' = SetLineWrap(heap, self, line_width, cascade)
    /\ ret' = [NoRet EXCEPT !.op = "set_line_wrap", !.self = self, !.cascade = cascade,
                            !.line_width = line_width]

\* self.set_term_size(width, cascade)
SetTermSizeOver(widths) ==
  \E self \in Ids(heap), width \in widths, cascade \in BOOLEAN :
    /\ heap' = SetTermSize(heap, self, width, cascade)
    /\ ret' = [NoRet EXCEPT !.op = "set_term_size", !.self = self, !.cascade = cascade,
                            !.term_width = width]

\* self.update(set_fancy, line_width, term_width, cascade)
UpdateOver(fancies, wraps, widths) ==
  \E self \in Ids(heap), set_fancy \in fancies \cup {None}, line_width \in wraps \cup {None},
     term_width \in widths \cup {None}, cascade \in BOOLEAN :
    /\ heap' = Update(heap, self, set_fancy, line_width, term_width, cascade)
    /\ ret' = [NoRet EXCEPT !.op = "update", !.self = self, !.cascade = cascade,
                            !.set_fancy = set_fancy, !.line_width = line_width,
                            !.term_width = term_width]

----------------------------------------------------------------------------
(* Spec: construction, add_node, search and print, on trees of Tree and    *)
(* Node objects with the default settings.                                 *)

KeyNames == <<"x", "y", "z", "w">>

\* the keys a dict given to a constructor has, in insertion order
StrKeys == [k \in 1..Len(KeyNames) |-> Str(<<KeyNames[k]>>)]

ApiNames == {None, Str(<<"R">>)}
ApiVals == <<Str(<<"a">>), Str(<<"b">>), Str(<<"c">>), Str(<<"d">>)>>
ApiFunctions == {None, Fn(<<"f">>, FALSE), Fn(<<"f">>, TRUE)}
ApiAddValues == {Str(<<"v">>)}
ApiAddKeys == {None, Str(<<"x">>), Str(<<"k">>)}
ApiSearchKeys == {Str(<<"x">>), Str(<<"r">>), Str(<<"q">>)}

NewTree ==
  NewTreeOver(ApiNames, Adopting(heap, NodesArgs(heap, ApiVals, StrKeys)), {PyBool(FALSE)},
              {None}, {None})

NewNode == NewNodeOver({None}, {None}, ApiFunctions, Adopting(heap, {NodesNone}))

AddNodeCall == AddNodeOver(ApiAddValues, ApiAddKeys)

SearchCall == SearchOver(ApiSearchKeys)

PrintCall == PrintOver(Ids(heap))

Next == NewTree \/ NewNode \/ AddNodeCall \/ SearchCall \/ PrintCall

Spec == Init /\ [][Next]_vars

----------------------------------------------------------------------------
(* SpecConfig: construction and the setters, with and without cascade.     *)

CfgVals == <<Str(<<"a">>)>>
CfgFancies == {PyBool(FALSE), PyBool(TRUE)}
CfgWraps == {PyInt(3)}
CfgWidths == {PyInt(9)}

CfgNewTree ==
  NewTreeOver({None}, Adopting(heap, NodesArgs(heap, CfgVals, StrKeys)), {PyBool(FALSE)}, {None},
              {None})

SetFancyCall == SetFancyOver(CfgFancies)

SetLineWrapCall == SetLineWrapOver(CfgWraps)

SetTermSizeCall == SetTermSizeOver(CfgWidths)

UpdateCall == UpdateOver(CfgFancies, CfgWraps, CfgWidths)

NextConfig == CfgNewTree \/ SetFancyCall \/ SetLineWrapCall \/ SetTermSizeCall \/ UpdateCall

SpecConfig == Init /\ [][NextConfig]_vars

----------------------------------------------------------------------------
(* SpecRender: construction with every setting, and print.                 *)

RenderNames == {None, Str(<<"R", "s">>)}
RenderVals == <<Str(<<"a">>), Str(<<"c", "d">>), Str(<<"e">>), Str(<<"g", "h">>)>>
RenderFancies == {PyBool(FALSE), PyBool(TRUE)}
RenderWraps == {None, PyInt(1)}
RenderWidths == {None, PyInt(7)}

RenderNewTree ==
  NewTreeOver(RenderNames, Adopting(heap, NodesArgs(heap, RenderVals, StrKeys)), RenderFancies,
              RenderWraps, RenderWidths)

\* print, called on the root of the tree
RenderPrint == PrintOver(Parentless(heap))

NextRender == RenderNewTree \/ RenderPrint

SpecRender == Init /\ [][NextRender]_vars

----------------------------------------------------------------------------
(* Definitions the properties are stated with *)

SetterOps == {"set_fancy", "set_line_wrap", "set_term_size", "update"}

GlyphChars ==
  {"|", "-", ">", " ", "~", "\\", "U+2502", "U+251C", "U+2500", "U+2514", "U+2510"}

\* a line without the glyphs it begins with
RECURSIVE StripGlyphs(_)
StripGlyphs(line) ==
  IF line # <<>> /\ line[1] \in GlyphChars THEN StripGlyphs(Tail(line)) ELSE line

\* the text of the lines, one after the other
RECURSIVE TextOf(_)
TextOf(lines) == IF lines = <<>> THEN <<>> ELSE StripGlyphs(lines[1]) \o TextOf(Tail(lines))

\* the texts of a tree in pre-order: the name of the node, then its children in
\* the order of the collection, a Tree child with all of its subtree
RECURSIVE PreOrderText(_, _)
RECURSIVE PreOrderItems(_, _, _)
PreOrderItems(h, items, k) ==
  IF k > Len(items) THEN <<>>
  ELSE (CASE IsTree(items[k]) -> PreOrderText(h, items[k].n)
          [] IsNone(items[k]) -> <<>>
          [] OTHER -> PyStr(items[k]))
       \o PreOrderItems(h, items, k + 1)

PreOrderText(h, i) == TreeStr(h[i]) \o PreOrderItems(h, h[i].nodes.items, 1)

\* how many lines hold the character c
CountLines(lines, c) ==
  Cardinality({i \in 1..Len(lines) : \E j \in 1..Len(lines[i]) : lines[i][j] = c})

\* the child entries below i that draw a line, by rank in their collection: the
\* final ones (final = TRUE) or the others
RankedEntries(h, i, final) ==
  {<<n, k>> \in SubtreeIds(h, i) \X (1..MaxKids) :
     /\ k <= Len(h[n].nodes.items)
     /\ ~IsNone(h[n].nodes.items[k])
     /\ (k = Len(h[n].nodes.items)) = final}

\* the heap with the other palette on every object
Flip(h) == [i \in Ids(h) |-> SetCharacters([h[i] EXCEPT !.fancy = ~@])]

Printed == ret.op = "print" /\ ~ret.exc

\* the helper's answer to a width that is not positive, as far as the last print
\* shows it
HelperOutcomes ==
  IF \E c \in ret.tabs : c.width <= 0 THEN {"whole"} ELSE NonPosOutcomes

\* the last print and a print of the same tree in the other palette give as many
\* lines, with the same text on each
SameTextOtherPalette ==
  \A nonpos \in HelperOutcomes :
    LET other == TreePrint(Flip(heap), ret.self, ret.remove_root_branch, nonpos)
    IN  /\ ~other.exc
        /\ Len(other.list) = Len(ret.list)
        /\ \A i \in 1..Len(ret.list) : StripGlyphs(other.list[i]) = StripGlyphs(ret.list[i])

OnePalette(h, i) == \A a, b \in SubtreeIds(h, i) : h[a].fancy = h[b].fancy

----------------------------------------------------------------------------
(* The properties *)

\* C1: print is non-destructive on every exit path: when print has returned or
\* has raised, the name and the nodes of the root are the values they had when
\* print was called.
C1_PrintRestoresRoot ==
  ret.op = "print" =>
    /\ heap[ret.self].name = ret.name
    /\ heap[ret.self].nodes = ret.nodes

\* C2: sibling order is preserved by rendering: the text of the lines print
\* returns is the text of the tree in pre-order, every node's own text followed by
\* the whole subtree of its first child, then of its second, and so on, at every
\* depth.
C2_SiblingOrder ==
  Printed => TextOf(ret.list) = PreOrderText(heap, ret.self)

\* C2, witness: print has returned the lines of a tree whose root holds a Tree
\* with a child of its own first and a plain value after it.
C2_Witness ==
  /\ Printed
  /\ heap[ret.self].nodes.shape = "list"
  /\ Len(heap[ret.self].nodes.items) = 2
  /\ IsTree(heap[ret.self].nodes.items[1])
  /\ heap[ret.self].nodes.items[2].t = "str"
  /\ \E k \in 1..Len(heap[heap[ret.self].nodes.items[1].n].nodes.items) :
       heap[heap[ret.self].nodes.items[1].n].nodes.items[k].t = "str"
  /\ Len(ret.list) >= 4

\* C3: the last sibling is chosen by rank: in a tree drawn with the fancy palette
\* on every node, the children drawn with the end connector are exactly the final
\* entries of their collections and those drawn with the branch connector are
\* exactly the others, for a list and for a dict alike.  (The root's own line has
\* the end connector unless remove_root_branch cut it off.)
C3_LastSiblingByRank ==
  (Printed /\ \A i \in SubtreeIds(heap, ret.self) : heap[i].fancy) =>
    /\ CountLines(ret.list, "U+2514")
         = Cardinality(RankedEntries(heap, ret.self, TRUE))
             + (IF ret.remove_root_branch THEN 0 ELSE 1)
    /\ CountLines(ret.list, "U+251C") = Cardinality(RankedEntries(heap, ret.self, FALSE))

\* C4: a cascading update reaches the whole subtree: after a setter called with
\* cascade=True, the node and every Tree below it have the settings the call gave.
C4_CascadeReachesSubtree ==
  (ret.op \in SetterOps /\ ret.cascade) =>
    \A d \in SubtreeIds(heap, ret.self) :
      /\ ~IsNone(ret.set_fancy) =>
           /\ heap[d].fancy = Truthy(ret.set_fancy)
           /\ heap[d] = SetCharacters(heap[d])
      /\ ~IsNone(ret.line_width) => heap[d].line_wrap = ret.line_width.n
      /\ ~IsNone(ret.term_width) => heap[d].width = ret.term_width.n

\* C5: settings never propagate without an explicit cascade: a setter called with
\* cascade=False changes no object but the one it was called on, and constructing
\* a Tree changes none of the objects there were, its children included.
C5_NoPropagationWithoutCascade ==
  [][/\ (ret'.op \in SetterOps /\ ~ret'.cascade) =>
          /\ Len(heap') = Len(heap)
          /\ \A i \in Ids(heap) \ {ret'.self} : heap'[i] = heap[i]
     /\ ret'.op = "Tree" =>
          /\ Len(heap') = Len(heap) + 1
          /\ \A i \in Ids(heap) : heap'[i] = heap[i]]_vars

\* C5, witness: update has been called without cascade, with all three settings,
\* on a node that holds a Tree whose three settings are all other than the node's.
C5_Witness ==
  /\ ret.op = "update"
  /\ ~ret.cascade
  /\ ~IsNone(ret.set_fancy) /\ ~IsNone(ret.line_width) /\ ~IsNone(ret.term_width)
  /\ \E d \in Descendants(heap, ret.self) :
       /\ heap[d].fancy # heap[ret.self].fancy
       /\ heap[d].line_wrap # heap[ret.self].line_wrap
       /\ heap[d].width # heap[ret.self].width

\* what search is to return: the entry of the key in a dict, the first Tree of the
\* name in a list, None when there is none
RECURSIVE FirstNamed(_, _, _, _)
FirstNamed(h, items, k, key) ==
  IF k > Len(items) THEN None
  ELSE IF IsTree(items[k]) /\ Lower(PyStr(h[items[k].n].name)) = Lower(PyStr(key))
       THEN items[k]
  ELSE FirstNamed(h, items, k + 1, key)

Lookup(h, self, key) ==
  LET nd == h[self].nodes
  IN  IF nd.shape = "dict"
      THEN IF \E k \in 1..Len(nd.keys) : nd.keys[k] = key
           THEN nd.items[CHOOSE k \in 1..Len(nd.keys) : nd.keys[k] = key]
           ELSE None
      ELSE FirstNamed(h, nd.items, 1, key)

\* C6: a lookup miss never raises: search returns the matching child when there is
\* one and None otherwise, whatever the entries of the node are.
C6_SearchNeverRaises ==
  ret.op = "search" =>
    /\ ~ret.exc
    /\ ret.val = Lookup(heap, ret.self, ret.key)

\* C7: the first add_node on a node constructed with no children (its nodes are
\* what set_nodes made of None) leaves the one-element list [value] when no key
\* was given and the one-entry dict {key: value} when one was.
C7_FirstAddInitialises ==
  (ret.op = "add_node" /\ ret.nodes = SetNodes(Blank, NodesNone).nodes) =>
    IF IsNone(ret.key)
    THEN heap[ret.self].nodes = NodesList(<<ret.node>>)
    ELSE heap[ret.self].nodes = NodesDict(<<ret.key>>, <<ret.node>>)

NoWidthBudget(h, i) == \A d \in SubtreeIds(h, i) : h[d].width <= 0

C9_Scenario ==
  /\ Printed
  /\ ret.remove_root_branch
  /\ heap[ret.self].cls = "Tree"
  /\ heap[ret.self].name = Str(<<"R">>)
  /\ heap[ret.self].nodes = NodesList(<<Str(<<"a">>), Str(<<"b">>)>>)
  /\ ~heap[ret.self].fancy
  /\ heap[ret.self].line_wrap <= 0
  /\ heap[ret.self].width <= 0

\* C9 as stated: the scenario returns exactly the two lines "|->a" and "|->b".
C9_TwoLeafLines ==
  C9_Scenario => ret.list = << <<"|", "-", ">", "a">>, <<"|", "-", ">", "b">> >>

\* C9, amended: the scenario returns exactly the three lines "R", " |->a" and
\* " |->b": the root's name first, then each leaf behind one space and its own
\* connector.
C9_RootAndLeafLines ==
  C9_Scenario =>
    ret.list = << <<"R">>, <<" ", "|", "-", ">", "a">>, <<" ", "|", "-", ">", "b">> >>

\* C10: the width a plain-value child is wrapped at is the smaller of line_wrap and
\* the remaining budget width - len(connector) - prior prefix when both are set,
\* and the one that is set when only one is.
C10_EffectiveWrapIsMin ==
  ret.op = "print" =>
    \A c \in ret.tabs :
      c.kind = "value" =>
        c.width = (IF c.line_wrap > 0 /\ c.budget > 0
                   THEN Min(c.line_wrap, c.budget - c.plen - c.prior)
                   ELSE IF c.line_wrap > 0 THEN c.line_wrap
                   ELSE c.budget - c.plen - c.prior)

\* C11: the wrap helper is only ever called with a positive width: every call of
\* tabulate a print has made, for the name of a node or for a plain-value child at
\* any depth, had a width argument greater than 0.
C11_TabulateWidthPositive ==
  ret.op = "print" => \A c \in ret.tabs : c.width > 0

====
